---- MODULE Spec2Model ----
(***************************************************************************)
(* Model of the mongoutil data provider: the CRUD handlers of DataProvider *)
(* (Create, Get, Query, Update, Delete), the retry loop, the query         *)
(* parameter helpers and the ValidateInput interceptor.                    *)
(*                                                                         *)
(* The database driver (mgo) is an external collaborator.  It is modelled  *)
(* by its contract: a call either completes against the stored documents   *)
(* (returning nil, ErrNotFound, or a server-side write error) or fails     *)
(* with a transient error and leaves the documents untouched.              *)
(*                                                                         *)
(* Identifiers (_id values) are abstracted to integers: client supplied    *)
(* ids are the elements of ClientIds, ids generated by bson.NewObjectId    *)
(* are GenBase + 1, GenBase + 2, ... and are never generated twice.        *)
(***************************************************************************)
EXTENDS Integers, Sequences, FiniteSets, TLC

(***************************************************************************)
(* Bounds of the model.                                                    *)
(***************************************************************************)
MaxClock == 2
MaxGen == 1

(***************************************************************************)
(* constants.go                                                            *)
(***************************************************************************)
ID == "_id"
CreatedAt == "createdAt"
UpdatedAt == "updatedAt"

(***************************************************************************)
(* HTTP status codes used by utils.Error; Panic stands for a run-time      *)
(* panic of the handler (no value is returned).                            *)
(***************************************************************************)
StatusOK == 200
StatusBadRequest == 400
StatusNotFound == 404
StatusInternalServerError == 500
Panic == 0

(***************************************************************************)
(* Errors of the driver.  ErrNil is Go's nil error, ErrNotFound is         *)
(* mgo.ErrNotFound; the transient errors are failures of the connection;   *)
(* ErrDupKey and ErrModId are write errors reported by the server.         *)
(***************************************************************************)
ErrNil == "nil"
ErrNotFound == "not found"
TransientErrs == {"i/o timeout", "EOF"}
ErrDupKey == "E11000 duplicate key"
ErrModId == "_id cannot be changed"

(***************************************************************************)
(* store       the documents of the collection, by _id                     *)
(* now         time.Now().Unix()                                           *)
(* nextId      how many identifiers bson.NewObjectId has generated         *)
(* last        the last call: its arguments, what it returned and the      *)
(*             driver invocations it made                                  *)
(* inflight    the Update calls that run concurrently, by goroutine: where *)
(*             each one is and its local variables                         *)
(***************************************************************************)
VARIABLES store, now, nextId, last, inflight
vars == <<store, now, nextId, last, inflight>>

(***************************************************************************)
(* retry(attempts, function): outs[i] is what the i-th invocation of       *)
(* function returns, should it be made.  The result carries the returned   *)
(* error, the number of invocations made and the messages logged.          *)
(***************************************************************************)
RECURSIVE retryLoopRetriesNotFound(_, _, _, _)
retryLoopRetriesNotFound(attempts, outs, i, log) ==
    LET err == outs[i + 1] IN
    IF err = ErrNil THEN [err |-> err, calls |-> i + 1, log |-> log]
    ELSE IF i >= attempts - 1
         THEN [err |-> err, calls |-> i + 1,
               log |-> Append(log, <<"last", attempts>>)]
    ELSE retryLoopRetriesNotFound(attempts, outs, i + 1,
                                  Append(log, <<"retrying", i + 1>>))

RECURSIVE retryLoopSilentLastAttempt(_, _, _, _)
retryLoopSilentLastAttempt(attempts, outs, i, log) ==
    LET err == outs[i + 1] IN
    IF err = ErrNil THEN [err |-> err, calls |-> i + 1, log |-> log]
    ELSE IF err = ErrNotFound THEN [err |-> err, calls |-> i + 1, log |-> log]
    ELSE IF i >= attempts - 1
         THEN [err |-> err, calls |-> i + 1, log |-> log]
    ELSE retryLoopSilentLastAttempt(attempts, outs, i + 1,
                                    Append(log, <<"retrying", i + 1>>))

RECURSIVE retryLoop(_, _, _, _)
retryLoop(attempts, outs, i, log) ==
    LET err == outs[i + 1] IN
    IF err = ErrNil THEN [err |-> err, calls |-> i + 1, log |-> log]
    ELSE IF err = ErrNotFound THEN [err |-> err, calls |-> i + 1, log |-> log]
    ELSE IF i >= attempts - 1
         THEN [err |-> err, calls |-> i + 1,
               log |-> Append(log, <<"last", attempts>>)]
    ELSE retryLoop(attempts, outs, i + 1, Append(log, <<"retrying", i + 1>>))

retryOneAttemptShort(attempts, outs) == retryLoop(attempts - 1, outs, 0, <<>>)

retry(attempts, outs) == retryLoop(attempts, outs, 0, <<>>)

(***************************************************************************)
(* Documents and request bodies are Go maps from field names to values.    *)
(* A map argument is either nil or a (possibly empty) map.                 *)
(***************************************************************************)
EmptyMap == [k \in {} |-> 0]
NilMap == [isNil |-> TRUE, m |-> EmptyMap]
MapOf(m) == [isNil |-> FALSE, m |-> m]

ClientIds == {1}
Attempts == 5

(***************************************************************************)
(* Request bodies offered to Create and Update: no body, the empty record, *)
(* user fields, and records carrying one of the restricted fields.         *)
(***************************************************************************)
Bodies ==
    { NilMap, MapOf(EmptyMap),
      MapOf("a" :> 1),
      MapOf(("a" :> 1) @@ (ID :> 1)),
      MapOf(CreatedAt :> 1),
      MapOf(UpdatedAt :> 0) }

(***************************************************************************)
(* bson.NewObjectId(): the n-th generated identifier.                      *)
(***************************************************************************)
NewObjectId(n) == 10 + n + 1

(***************************************************************************)
(* interceptors.go                                                         *)
(***************************************************************************)
restrictedFieldsWithoutCreatedAt == <<ID, UpdatedAt>>

restrictedFields == <<ID, CreatedAt, UpdatedAt>>

RECURSIVE validateLoop(_, _)
validateLoop(body, i) ==
    IF i > Len(restrictedFields) THEN [code |-> StatusOK, field |-> ""]
    ELSE IF restrictedFields[i] \in DOMAIN body.m
         THEN [code |-> StatusBadRequest, field |-> restrictedFields[i]]
         ELSE validateLoop(body, i + 1)

ValidateInput(body) == validateLoop(body, 1)

(***************************************************************************)
(* The driver's calls against the documents of the collection.  env is     *)
(* "ok" when the call reaches the server and is answered, or the transient *)
(* error the call fails with.                                              *)
(***************************************************************************)
Envs == {"ok"} \cup TransientErrs

(***************************************************************************)
(* How the connection behaves over the attempts of one retried call: it    *)
(* answers at once, fails once and then answers, answers only at the last  *)
(* attempt, or fails at every attempt.                                     *)
(***************************************************************************)
EnvSeqs ==
    { [i \in 1..Attempts |-> "ok"],
      [i \in 1..Attempts |-> IF i = 1 THEN "EOF" ELSE "ok"],
      [i \in 1..Attempts |-> IF i < Attempts THEN "i/o timeout" ELSE "ok"],
      [i \in 1..Attempts |-> IF i = 1 THEN "EOF" ELSE "i/o timeout"] }

Insert(st, doc, env) ==
    IF env # "ok" THEN [err |-> env, st |-> st]
    ELSE IF doc[ID] \in DOMAIN st THEN [err |-> ErrDupKey, st |-> st]
    ELSE [err |-> ErrNil, st |-> (doc[ID] :> doc) @@ st]

FindId(st, id, env) ==
    IF env # "ok" THEN [err |-> env, doc |-> EmptyMap]
    ELSE IF id \in DOMAIN st THEN [err |-> ErrNil, doc |-> st[id]]
    ELSE [err |-> ErrNotFound, doc |-> EmptyMap]

UpdateId(st, id, doc, env) ==
    IF env # "ok" THEN [err |-> env, st |-> st]
    ELSE IF id \notin DOMAIN st THEN [err |-> ErrNotFound, st |-> st]
    ELSE IF ID \in DOMAIN doc /\ doc[ID] # id THEN [err |-> ErrModId, st |-> st]
    ELSE [err |-> ErrNil, st |-> [k \in DOMAIN st |-> IF k = id THEN doc ELSE st[k]]]

RemoveId(st, id, env) ==
    IF env # "ok" THEN [err |-> env, st |-> st]
    ELSE IF id \notin DOMAIN st THEN [err |-> ErrNotFound, st |-> st]
    ELSE [err |-> ErrNil, st |-> [k \in DOMAIN st \ {id} |-> st[k]]]

(***************************************************************************)
(* How the connection behaves over the two driver calls of one Update.     *)
(***************************************************************************)
EnvPairs == { <<"ok", "ok">>, <<"EOF", "ok">>, <<"ok", "i/o timeout">> }

Ids == ClientIds \cup {NewObjectId(n) : n \in 0..(MaxGen - 1)}

(***************************************************************************)
(* What a call leaves in last: data is the caller's map after the call     *)
(* (Create and Update write into it), body the map as it was passed,       *)
(* before the document stored under id when the call was made (nil when    *)
(* there was none), outs the errors the driver invocations returned.       *)
(***************************************************************************)
Stored(st, id) == IF id \in DOMAIN st THEN MapOf(st[id]) ELSE NilMap

Result(op, id, body, data, code, resp, r) ==
    [op |-> op, id |-> id, body |-> body, data |-> data, code |-> code,
     resp |-> resp, err |-> r.err, calls |-> r.calls,
     outs |-> r.outs, log |-> r.log, before |-> Stored(store, id)]

NoCalls == [err |-> ErrNil, calls |-> 0, outs |-> <<>>, log |-> <<>>]
OneCall(err) == [err |-> err, calls |-> 1, outs |-> <<err>>, log |-> <<>>]
Retried(r, outs) == [err |-> r.err, calls |-> r.calls,
                     outs |-> SubSeq(outs, 1, r.calls), log |-> r.log]

(***************************************************************************)
(* DataProvider.Create                                                     *)
(***************************************************************************)
stampCreatedKeepsGiven(data, createdAt) ==
    data @@ (CreatedAt :> createdAt) @@ (UpdatedAt :> createdAt)

stampCreated(data, createdAt) ==
    (CreatedAt :> createdAt) @@ (UpdatedAt :> createdAt) @@ data

Create(body, envs) ==
    LET hasId == ID \in DOMAIN body.m
        createdAt == now
        withId == IF hasId THEN body.m
                  ELSE (ID :> NewObjectId(nextId)) @@ body.m
        data == stampCreated(withId, createdAt)
        outs == [i \in 1..Attempts |-> Insert(store, data, envs[i]).err]
        r == retry(Attempts, outs)
        response == (ID :> data[ID]) @@ (CreatedAt :> createdAt)
                        @@ (UpdatedAt :> createdAt)
    IN  /\ hasId \/ nextId < MaxGen
        /\ nextId' = IF hasId THEN nextId ELSE nextId + 1
        /\ UNCHANGED <<now, inflight>>
        /\ IF body.isNil
           THEN /\ store' = store
                /\ last' = Result("Create", 0, body, body, Panic, NilMap, NoCalls)
           ELSE IF r.err # ErrNil
           THEN /\ store' = store
                /\ last' = Result("Create", data[ID], body, MapOf(data),
                                  StatusInternalServerError, NilMap,
                                  Retried(r, outs))
           ELSE /\ store' = Insert(store, data, "ok").st
                /\ last' = Result("Create", data[ID], body, MapOf(data),
                                  StatusOK, MapOf(response), Retried(r, outs))

(***************************************************************************)
(* DataProvider.Get                                                        *)
(***************************************************************************)
getErrorCodeAlwaysServerError(getErr) == StatusInternalServerError

getErrorCode(getErr) ==
    IF getErr = ErrNotFound THEN StatusNotFound
    ELSE StatusInternalServerError

Get(id, envs) ==
    LET outs == [i \in 1..Attempts |-> FindId(store, id, envs[i]).err]
        r == retry(Attempts, outs)
    IN  /\ UNCHANGED <<store, now, nextId, inflight>>
        /\ IF r.err # ErrNil
           THEN last' = Result("Get", id, NilMap, NilMap, getErrorCode(r.err),
                               NilMap, Retried(r, outs))
           ELSE last' = Result("Get", id, NilMap, NilMap, StatusOK,
                               MapOf(FindId(store, id, "ok").doc),
                               Retried(r, outs))

(***************************************************************************)
(* DataProvider.Update                                                     *)
(***************************************************************************)
mergeFieldsKeepsOnlyData(objectToUpdate, data) == data

mergeFields(objectToUpdate, data) ==
    [k \in DOMAIN objectToUpdate \cup DOMAIN data |->
        IF k \in DOMAIN data THEN data[k] ELSE objectToUpdate[k]]

\* data[UpdatedAt] = int32(time.Now().Unix()): the conversion is exact for the
\* times of the model, which are all below 2^31
stampUpdatedAtUnlessPresent(data, t) == data @@ (UpdatedAt :> t)

stampUpdatedAt(data, t) == (UpdatedAt :> t) @@ data

Update(id, body, envFind, envUpdate) ==
    LET data == stampUpdatedAt(body.m, now)
        found == FindId(store, id, envFind)
        objectToUpdate == mergeFields(found.doc, data)
        updated == UpdateId(store, id, objectToUpdate, envUpdate)
    IN  /\ UNCHANGED <<now, nextId, inflight>>
        /\ IF body.isNil
           THEN /\ store' = store
                /\ last' = Result("Update", id, body, body, StatusBadRequest,
                                  NilMap, NoCalls)
           ELSE IF found.err # ErrNil
           THEN /\ store' = store
                /\ last' = Result("Update", id, body, MapOf(data),
                                  StatusNotFound, NilMap, OneCall(found.err))
           ELSE IF updated.err # ErrNil
           THEN /\ store' = store
                /\ last' = Result("Update", id, body, MapOf(data),
                                  StatusInternalServerError, NilMap,
                                  [err |-> updated.err, calls |-> 2,
                                   outs |-> <<found.err, updated.err>>,
                                   log |-> <<>>])
           ELSE /\ store' = updated.st
                /\ last' = Result("Update", id, body, MapOf(data), StatusOK,
                                  MapOf(UpdatedAt :> data[UpdatedAt]),
                                  [err |-> ErrNil, calls |-> 2,
                                   outs |-> <<found.err, updated.err>>,
                                   log |-> <<>>])

(***************************************************************************)
(* DataProvider.Delete                                                     *)
(***************************************************************************)
Delete(id, env) ==
    LET removed == RemoveId(store, id, env)
    IN  /\ UNCHANGED <<now, nextId, inflight>>
        /\ store' = removed.st
        /\ last' = Result("Delete", id, NilMap, NilMap,
                          IF removed.err # ErrNil THEN StatusNotFound
                                                  ELSE StatusOK,
                          NilMap, OneCall(removed.err))

(***************************************************************************)
(* The clock advances.                                                     *)
(***************************************************************************)
Tick ==
    /\ now < MaxClock
    /\ now' = now + 1
    /\ UNCHANGED <<store, nextId, inflight>>
    /\ last' = Result("Tick", 0, NilMap, NilMap, StatusOK, NilMap, NoCalls)

Init ==
    /\ store = EmptyMap
    /\ now = 1
    /\ nextId = 0
    /\ inflight = <<>>
    /\ last = Result("Init", 0, NilMap, NilMap, StatusOK, NilMap, NoCalls)

Next ==
    \/ \E body \in Bodies, envs \in EnvSeqs : Create(body, envs)
    \/ \E id \in Ids, envs \in EnvSeqs : Get(id, envs)
    \/ \E id \in Ids, body \in Bodies, envs \in EnvPairs :
          Update(id, body, envs[1], envs[2])
    \/ \E id \in Ids, env \in Envs : Delete(id, env)
    \/ Tick

Spec == Init /\ [][Next]_vars

(***************************************************************************)
(* Query parameters: a map from a key to the list of its raw values, as    *)
(* the framework takes them from the query string; a key that is present   *)
(* has at least one value.  json.Unmarshal is modelled on the raw values   *)
(* of RawValues: a malformed text, null, a string, two numbers, an object. *)
(* A float64 is the pair of a numerator and a denominator.                 *)
(***************************************************************************)
RawValues == {"abc{", "null", "\"name\"", "5", "1.5", "{\"a\":1}"}

jsonUnmarshal(raw) ==
    CASE raw = "null" -> [err |-> FALSE, kind |-> "nil", value |-> <<>>]
      [] raw = "\"name\"" -> [err |-> FALSE, kind |-> "string", value |-> "name"]
      [] raw = "5" -> [err |-> FALSE, kind |-> "float64", value |-> <<5, 1>>]
      [] raw = "1.5" -> [err |-> FALSE, kind |-> "float64", value |-> <<15, 10>>]
      [] raw = "{\"a\":1}" -> [err |-> FALSE, kind |-> "map", value |-> "a" :> 1]
      [] OTHER -> [err |-> TRUE, kind |-> "nil", value |-> <<>>]

\* int(f) of a float64 f truncates towards zero
intOfFloat64(f) ==
    IF f[1] >= 0 THEN f[1] \div f[2] ELSE -((-f[1]) \div f[2])

NoError == [code |-> StatusOK, kind |-> "", key |-> ""]
BadRequest(kind, key) == [code |-> StatusBadRequest, kind |-> kind, key |-> key]

extractJsonParameter(parameters, key) ==
    LET hasParam == key \in DOMAIN parameters
        parsed == jsonUnmarshal(parameters[key][1])
    IN  IF hasParam
        THEN [value |-> [kind |-> parsed.kind, value |-> parsed.value],
              hasParam |-> TRUE,
              err |-> IF parsed.err THEN BadRequest("parsing failed", key)
                                    ELSE NoError]
        ELSE [value |-> [kind |-> "nil", value |-> <<>>], hasParam |-> FALSE,
              err |-> NoError]

extractStringParameter(parameters, key) ==
    LET hasParam == key \in DOMAIN parameters
        parsed == jsonUnmarshal(parameters[key][1])
    IN  IF hasParam
        THEN IF parsed.kind # "string"
             THEN [value |-> "", hasParam |-> TRUE,
                   err |-> BadRequest("must be a valid string", key)]
             ELSE [value |-> parsed.value, hasParam |-> TRUE,
                   err |-> IF parsed.err THEN BadRequest("parsing failed", key)
                                         ELSE NoError]
        ELSE [value |-> "", hasParam |-> FALSE, err |-> NoError]

extractIntParameterAcceptsAnyKind(parameters, key) ==
    LET hasParam == key \in DOMAIN parameters
        parsed == jsonUnmarshal(parameters[key][1])
    IN  IF hasParam
        THEN [value |-> IF parsed.kind = "float64"
                        THEN intOfFloat64(parsed.value) ELSE 0,
              hasParam |-> TRUE,
              err |-> IF parsed.err THEN BadRequest("parsing failed", key)
                                    ELSE NoError]
        ELSE [value |-> 0, hasParam |-> FALSE, err |-> NoError]

extractIntParameter(parameters, key) ==
    LET hasParam == key \in DOMAIN parameters
        parsed == jsonUnmarshal(parameters[key][1])
    IN  IF hasParam
        THEN IF parsed.kind # "float64"
             THEN [value |-> 0, hasParam |-> TRUE,
                   err |-> BadRequest("must be an integer", key)]
             ELSE [value |-> intOfFloat64(parsed.value), hasParam |-> TRUE,
                   err |-> IF parsed.err THEN BadRequest("parsing failed", key)
                                         ELSE NoError]
        ELSE [value |-> 0, hasParam |-> FALSE, err |-> NoError]

(***************************************************************************)
(* DataProvider.Query                                                      *)
(***************************************************************************)
\* parameters["aggregate"] != nil && parameters["where"] != nil
bothGivenNeverDetected(parameters) == FALSE

bothGiven(parameters) ==
    "aggregate" \in DOMAIN parameters /\ "where" \in DOMAIN parameters

\* the parse errors are assigned to err one after the other
surfacedErrorFirstWins(aggregateErr, whereErr, sortErr, limitErr, skipErr) ==
    IF whereErr # NoError THEN whereErr
    ELSE IF aggregateErr # NoError THEN aggregateErr
    ELSE IF sortErr # NoError THEN sortErr
    ELSE IF limitErr # NoError THEN limitErr
    ELSE skipErr

surfacedError(aggregateErr, whereErr, sortErr, limitErr, skipErr) ==
    LET e1 == IF aggregateErr # NoError THEN aggregateErr ELSE NoError
        e2 == IF whereErr # NoError THEN whereErr ELSE e1
        e3 == IF sortErr # NoError THEN sortErr ELSE e2
        e4 == IF limitErr # NoError THEN limitErr ELSE e3
    IN  IF skipErr # NoError THEN skipErr ELSE e4

NoQuery == [kind |-> "none"]

QueryResult(parameters, error, query, results, r) ==
    [op |-> "Query", parameters |-> parameters, code |-> error.code,
     error |-> error, query |-> query, results |-> results,
     err |-> r.err, calls |-> r.calls, outs |-> r.outs, log |-> r.log]

\* answer is what the server answers to the find or the aggregation when the
\* call reaches it: an error of its own, or the matching documents (nil when
\* there are none)
Query(parameters, envs, answer) ==
    LET whereParam == extractJsonParameter(parameters, "where")
        aggregateParam == extractJsonParameter(parameters, "aggregate")
        sortParam == extractStringParameter(parameters, "sort")
        limitParam == extractIntParameter(parameters, "limit")
        skipParam == extractIntParameter(parameters, "skip")
        err == surfacedError(aggregateParam.err, whereParam.err, sortParam.err,
                             limitParam.err, skipParam.err)
        query == IF aggregateParam.hasParam
                 THEN [kind |-> "pipe", pipeline |-> aggregateParam.value]
                 ELSE [kind |-> "find", where |-> whereParam.value,
                       skip |-> skipParam.value, limit |-> limitParam.value,
                       sorted |-> sortParam.hasParam, sort |-> sortParam.value]
        outs == [i \in 1..Attempts |->
                    IF envs[i] # "ok" THEN envs[i] ELSE answer.err]
        r == retry(Attempts, outs)
    IN  /\ UNCHANGED <<store, now, nextId, inflight>>
        /\ IF bothGiven(parameters)
           THEN last' = QueryResult(parameters,
                                    BadRequest("cannot be used at the same request", ""),
                                    NoQuery, <<>>, NoCalls)
           ELSE IF err # NoError
           THEN last' = QueryResult(parameters, err, NoQuery, <<>>, NoCalls)
           ELSE IF whereParam.hasParam /\ aggregateParam.hasParam
           THEN last' = QueryResult(parameters,
                                    [code |-> StatusInternalServerError,
                                     kind |-> "cannot be used with where",
                                     key |-> ""],
                                    NoQuery, <<>>, NoCalls)
           ELSE IF r.err # ErrNil
           THEN last' = QueryResult(parameters,
                                    [code |-> StatusInternalServerError,
                                     kind |-> "querying failed", key |-> ""],
                                    query, <<>>, Retried(r, outs))
           ELSE last' = QueryResult(parameters, NoError, query,
                                    IF answer.isNil THEN <<>> ELSE answer.results,
                                    Retried(r, outs))

(***************************************************************************)
(* The parameters of the requests a Query is made with: each key absent or *)
(* present with a list of raw values, of which Query reads the first.      *)
(***************************************************************************)
QueryKeys == {"where", "aggregate", "sort", "limit", "skip"}

FilterLists == {<<"abc{">>, <<"{\"a\":1}">>, <<"5">>}
ValueLists == {<<v>> : v \in RawValues} \cup {<<"abc{", "5">>}

ParameterMaps ==
    UNION { { p \in [keys -> ValueLists] :
                \A k \in keys \cap {"where", "aggregate"} : p[k] \in FilterLists }
            : keys \in SUBSET QueryKeys }

Answers ==
    { [err |-> ErrNil, isNil |-> TRUE, results |-> <<>>],
      [err |-> ErrNil, isNil |-> FALSE, results |-> <<"a" :> 1>>],
      [err |-> "bad query", isNil |-> TRUE, results |-> <<>>] }

InitQuery ==
    /\ store = EmptyMap
    /\ now = 1
    /\ nextId = 0
    /\ inflight = <<>>
    /\ last \in {[op |-> "QueryRequest", parameters |-> p] : p \in ParameterMaps}

NextQuery ==
    \E envs \in EnvSeqs, answer \in Answers :
        /\ last.op = "QueryRequest"
        /\ Query(last.parameters, envs, answer)

SpecQuery == InitQuery /\ [][NextQuery]_vars

(***************************************************************************)
(* retry applied to a wrapped operation whose i-th invocation, if made,    *)
(* returns given[i]: nil, not-found, or a transient error.                 *)
(***************************************************************************)
Outcomes == {ErrNil, ErrNotFound} \cup TransientErrs

RetryCall(attempts, given) ==
    LET r == retry(attempts, given)
    IN  /\ UNCHANGED <<store, now, nextId, inflight>>
        /\ last' = [op |-> "retry", attempts |-> attempts, given |-> given,
                    err |-> r.err, calls |-> r.calls,
                    outs |-> SubSeq(given, 1, r.calls), log |-> r.log]

NextRetry ==
    \/ \E attempts \in 1..Attempts :
          \E given \in [1..attempts -> Outcomes] : RetryCall(attempts, given)
    \/ \E id \in Ids, envs \in [1..Attempts -> Envs] : Get(id, envs)

SpecRetry == Init /\ [][NextRetry]_vars

(***************************************************************************)
(* DataProvider.Get of the provider without retry: one lookup, and every   *)
(* error of it is answered 404.                                            *)
(***************************************************************************)
GetWithoutRetry(id, env) ==
    LET found == FindId(store, id, env)
    IN  /\ UNCHANGED <<store, now, nextId, inflight>>
        /\ IF found.err # ErrNil
           THEN last' = Result("GetWithoutRetry", id, NilMap, NilMap,
                               StatusNotFound, NilMap, OneCall(found.err))
           ELSE last' = Result("GetWithoutRetry", id, NilMap, NilMap, StatusOK,
                               MapOf(found.doc), OneCall(found.err))

(***************************************************************************)
(* Get of both providers, on a collection that holds no record, a record   *)
(* created under a generated id, or that and one created under a client's  *)
(* id, with every behaviour of the connection over the attempts.           *)
(***************************************************************************)
CreatedRecord(id) == stampCreated((ID :> id) @@ ("a" :> 1), 1)

GetStores ==
    { EmptyMap,
      NewObjectId(0) :> CreatedRecord(NewObjectId(0)),
      (NewObjectId(0) :> CreatedRecord(NewObjectId(0)))
          @@ (1 :> CreatedRecord(1)) }

InitGet ==
    /\ store \in GetStores
    /\ now = 1
    /\ nextId = IF NewObjectId(0) \in DOMAIN store THEN 1 ELSE 0
    /\ inflight = <<>>
    /\ last = Result("Init", 0, NilMap, NilMap, StatusOK, NilMap, NoCalls)

NextGet ==
    \/ \E id \in Ids, envs \in [1..Attempts -> Envs] : Get(id, envs)
    \/ \E id \in Ids, env \in Envs : GetWithoutRetry(id, env)

SpecGet == InitGet /\ [][NextGet]_vars

(***************************************************************************)
(* Update calls that run concurrently, each in its own goroutine, on a     *)
(* collection that holds one record.  A call goes through the entry of     *)
(* Update up to the stamp of data[UpdatedAt], the lookup and the merge,    *)
(* and the write-back; each driver call is one step, as the server         *)
(* executes an operation on a single document atomically, and there is no  *)
(* lock between them.                                                      *)
(***************************************************************************)
Procs == {1, 2}

ConcurrentBodies == {NilMap, MapOf("a" :> 1), MapOf("b" :> 1)}

Idle == [pc |-> "idle", id |-> 0, body |-> NilMap, data |-> EmptyMap,
         objectToUpdate |-> EmptyMap, code |-> StatusOK, resp |-> NilMap]

Step(p, call) == [inflight EXCEPT ![p] = call]

\* part_000:245-255
UpdateEnter(p, id, body) ==
    /\ inflight[p].pc = "idle"
    /\ UNCHANGED <<store, now, nextId, last>>
    /\ IF body.isNil
       THEN inflight' = Step(p, [Idle EXCEPT !.pc = "done", !.id = id,
                                            !.code = StatusBadRequest])
       ELSE inflight' = Step(p, [Idle EXCEPT !.pc = "find", !.id = id,
                                    !.body = body,
                                    !.data = stampUpdatedAt(body.m, now)])

\* part_000:257-270
UpdateFind(p, env) ==
    LET call == inflight[p]
        found == FindId(store, call.id, env)
    IN  /\ call.pc = "find"
        /\ UNCHANGED <<store, now, nextId, last>>
        /\ IF found.err # ErrNil
           THEN inflight' = Step(p, [call EXCEPT !.pc = "done",
                                                !.code = StatusNotFound])
           ELSE inflight' = Step(p, [call EXCEPT !.pc = "write",
                                    !.objectToUpdate =
                                        mergeFields(found.doc, call.data)])

\* part_000:272-290
UpdateWrite(p, env) ==
    LET call == inflight[p]
        updated == UpdateId(store, call.id, call.objectToUpdate, env)
    IN  /\ call.pc = "write"
        /\ UNCHANGED <<now, nextId, last>>
        /\ store' = updated.st
        /\ IF updated.err # ErrNil
           THEN inflight' = Step(p, [call EXCEPT !.pc = "done",
                                        !.code = StatusInternalServerError])
           ELSE inflight' = Step(p, [call EXCEPT !.pc = "done",
                                        !.code = StatusOK,
                                        !.resp = MapOf(UpdatedAt :>
                                                    call.data[UpdatedAt])])

TickConcurrent ==
    /\ now < MaxClock
    /\ now' = now + 1
    /\ UNCHANGED <<store, nextId, last, inflight>>

InitConcurrent ==
    /\ store = (NewObjectId(0) :> CreatedRecord(NewObjectId(0)))
    /\ now = 1
    /\ nextId = 1
    /\ last = Result("Init", 0, NilMap, NilMap, StatusOK, NilMap, NoCalls)
    /\ inflight = [p \in Procs |-> Idle]

NextConcurrent ==
    \/ \E p \in Procs, id \in Ids, body \in ConcurrentBodies :
          UpdateEnter(p, id, body)
    \/ \E p \in Procs, env \in Envs : UpdateFind(p, env)
    \/ \E p \in Procs, env \in Envs : UpdateWrite(p, env)
    \/ TickConcurrent

SpecConcurrent == InitConcurrent /\ [][NextConcurrent]_vars

(***************************************************************************)
(* C1 as stated: retry(5, f) returns success if any of the 5 attempts      *)
(* succeeds, returns an error only if all 5 attempts failed, and the error *)
(* it returns is the error of the last attempt made.                       *)
(***************************************************************************)
C1_AsStated ==
    (last.op = "retry" /\ last.attempts = Attempts) =>
        /\ (\E i \in 1..Attempts : last.given[i] = ErrNil) => last.err = ErrNil
        /\ last.err # ErrNil =>
              /\ last.calls = Attempts
              /\ \A i \in 1..Attempts : last.given[i] # ErrNil
        /\ last.err = last.given[last.calls]

(***************************************************************************)
(* C1 (amended): retry(5, f) returns success if one of the 5 attempts      *)
(* succeeds and no attempt before it returned not-found; it returns an     *)
(* error only if all 5 attempts failed or an attempt returned not-found;   *)
(* what it returns is what the last attempt made returned.                 *)
(***************************************************************************)
C1_RetryOutcome ==
    (last.op = "retry" /\ last.attempts = Attempts) =>
        /\ \A i \in 1..Attempts :
              (/\ last.given[i] = ErrNil
               /\ \A j \in 1..(i - 1) : last.given[j] # ErrNotFound)
              => last.err = ErrNil
        /\ last.err # ErrNil =>
              \/ /\ last.calls = Attempts
                 /\ \A i \in 1..Attempts : last.given[i] # ErrNil
              \/ last.err = ErrNotFound
        /\ last.err = last.given[last.calls]

C1_Witness ==
    /\ last.op = "retry"
    /\ last.attempts = Attempts
    /\ last.given = [i \in 1..Attempts |->
                        IF i < 3 THEN "EOF"
                        ELSE IF i = 3 THEN "i/o timeout" ELSE ErrNil]
    /\ last.err = ErrNil
    /\ last.calls = 4

(***************************************************************************)
(* C2: not-found is never retried.  Once an invocation of the wrapped      *)
(* operation returns not-found, no further invocation is made and retry    *)
(* returns not-found; a Get of an absent id makes no lookup after the one  *)
(* that is answered not-found, so exactly one when its first lookup is     *)
(* answered, and returns 404.                                              *)
(***************************************************************************)
C2_NotFoundNotRetried ==
    /\ last.op = "retry" =>
          \A i \in 1..last.attempts :
              (/\ last.given[i] = ErrNotFound
               /\ \A j \in 1..(i - 1) : last.given[j] \in TransientErrs)
              => (last.calls = i /\ last.err = ErrNotFound)
    /\ (last.op = "Get" /\ last.before.isNil) =>
          /\ \A i \in 1..Len(last.outs) :
                last.outs[i] = ErrNotFound =>
                   /\ i = last.calls
                   /\ last.err = ErrNotFound
                   /\ last.code = StatusNotFound
          /\ last.outs[1] = ErrNotFound => last.calls = 1

C2_Witness ==
    /\ last.op = "Get"
    /\ last.before.isNil
    /\ last.outs = <<ErrNotFound>>
    /\ last.calls = 1
    /\ last.code = StatusNotFound

(***************************************************************************)
(* Which parameters of a request are rejected, read off the raw values:    *)
(* where and aggregate must be valid JSON, sort a JSON string, limit and   *)
(* skip JSON numbers.                                                      *)
(***************************************************************************)
MalformedJson == {"abc{"}
JsonStrings == {"\"name\""}
JsonNumbers == {"5", "1.5"}

Rejects(parameters, key) ==
    /\ key \in DOMAIN parameters
    /\ CASE key \in {"where", "aggregate"} -> parameters[key][1] \in MalformedJson
         [] key = "sort" -> parameters[key][1] \notin JsonStrings
         [] OTHER -> parameters[key][1] \notin JsonNumbers

WhereAndAggregateGiven(parameters) == {"where", "aggregate"} \subseteq DOMAIN parameters

\* the first, and the last, key of the sequence order that is rejected
RECURSIVE FirstRejected(_, _, _)
FirstRejected(parameters, order, i) ==
    IF i > Len(order) THEN ""
    ELSE IF Rejects(parameters, order[i]) THEN order[i]
    ELSE FirstRejected(parameters, order, i + 1)

RECURSIVE LastRejected(_, _, _)
LastRejected(parameters, order, i) ==
    IF i < 1 THEN ""
    ELSE IF Rejects(parameters, order[i]) THEN order[i]
    ELSE LastRejected(parameters, order, i - 1)

RejectedKeys(parameters) == {k \in QueryKeys : Rejects(parameters, k)}

(***************************************************************************)
(* C3: a Query given both a where and an aggregate parameter returns a     *)
(* bad-request (400) error, whatever the values of these and of sort,      *)
(* limit and skip, and executes no find and no aggregation.                *)
(***************************************************************************)
C3_WhereWithAggregate ==
    (last.op = "Query" /\ WhereAndAggregateGiven(last.parameters)) =>
        /\ last.code = StatusBadRequest
        /\ last.error.kind = "cannot be used at the same request"
        /\ last.calls = 0
        /\ last.query.kind = "none"

C3_Witness ==
    /\ last.op = "Query"
    /\ last.parameters = ("where" :> <<"{\"a\":1}">>)
                             @@ ("aggregate" :> <<"{\"a\":1}">>)
                             @@ ("limit" :> <<"5">>)
    /\ last.code = StatusBadRequest
    /\ last.calls = 0

(***************************************************************************)
(* C4 as stated: when several parameters of a Query are rejected (and      *)
(* where and aggregate are not both given), the error returned is that of  *)
(* the first rejected parameter in the order where, aggregate, sort,       *)
(* limit, skip.                                                            *)
(***************************************************************************)
C4_AsStated ==
    (/\ last.op = "Query"
     /\ ~WhereAndAggregateGiven(last.parameters)
     /\ Cardinality(RejectedKeys(last.parameters)) >= 2) =>
        /\ last.code = StatusBadRequest
        /\ last.error.key =
              FirstRejected(last.parameters,
                            <<"where", "aggregate", "sort", "limit", "skip">>, 1)

(***************************************************************************)
(* C4 (amended): when several parameters of a Query are rejected (and      *)
(* where and aggregate are not both given), the error returned is a        *)
(* bad-request error, that of the last rejected parameter in the order     *)
(* aggregate, where, sort, limit, skip; no query is executed.              *)
(***************************************************************************)
C4_LastRejectedSurfaces ==
    (/\ last.op = "Query"
     /\ ~WhereAndAggregateGiven(last.parameters)
     /\ Cardinality(RejectedKeys(last.parameters)) >= 2) =>
        /\ last.code = StatusBadRequest
        /\ last.error.key =
              LastRejected(last.parameters,
                           <<"aggregate", "where", "sort", "limit", "skip">>, 5)
        /\ last.calls = 0

C4_Witness ==
    /\ last.op = "Query"
    /\ last.parameters = ("where" :> <<"abc{">>) @@ ("sort" :> <<"5">>)
                             @@ ("limit" :> <<"\"name\"">>)
    /\ last.code = StatusBadRequest
    /\ last.error.key = "limit"

C6_UpdateMergesFields ==
    (last.op = "Update" /\ last.code = StatusOK) =>
        /\ last.id \in DOMAIN store
        /\ ~last.before.isNil
        /\ \A k \in DOMAIN last.body.m \ {UpdatedAt} :
              /\ k \in DOMAIN store[last.id]
              /\ store[last.id][k] = last.body.m[k]
        /\ \A k \in DOMAIN last.data.m :
              /\ k \in DOMAIN store[last.id]
              /\ store[last.id][k] = last.data.m[k]
        /\ \A k \in DOMAIN last.before.m \ DOMAIN last.data.m :
              k # UpdatedAt =>
                 /\ k \in DOMAIN store[last.id]
                 /\ store[last.id][k] = last.before.m[k]

C6_Witness ==
    /\ last.op = "Update"
    /\ last.code = StatusOK
    /\ last.body = MapOf("a" :> 1)
    /\ "a" \notin DOMAIN last.before.m
    /\ store[last.id]["a"] = 1
    /\ store[last.id][UpdatedAt] # last.before.m[UpdatedAt]
    /\ store[last.id][CreatedAt] = last.before.m[CreatedAt]
    /\ store[last.id][ID] = last.id

(***************************************************************************)
(* C7 as stated: every successful Update leaves the stored updatedAt       *)
(* strictly greater than it was before the Update.                         *)
(***************************************************************************)
C7_AsStated ==
    (last.op = "Update" /\ last.code = StatusOK) =>
        store[last.id][UpdatedAt] > last.before.m[UpdatedAt]

(***************************************************************************)
(* C7 (amended): a successful Update sets updatedAt to the Unix time in    *)
(* seconds at the call; the stored updatedAt is never smaller than before  *)
(* the Update and is strictly greater exactly when the clock has advanced  *)
(* past the previous updatedAt.                                            *)
(***************************************************************************)
C7_UpdatedAtFollowsClock ==
    (last.op = "Update" /\ last.code = StatusOK) =>
        /\ store[last.id][UpdatedAt] = now
        /\ last.resp.m[UpdatedAt] = now
        /\ store[last.id][UpdatedAt] >= last.before.m[UpdatedAt]
        /\ (store[last.id][UpdatedAt] > last.before.m[UpdatedAt])
              <=> (now > last.before.m[UpdatedAt])

C7_Witness ==
    /\ last.op = "Update"
    /\ last.code = StatusOK
    /\ last.before.m[UpdatedAt] = 1
    /\ store[last.id][UpdatedAt] = 2

(***************************************************************************)
(* C8 as stated: Get and Delete of an id that is not in the collection     *)
(* return not-found (404), and a successful Delete leaves the id out of    *)
(* the collection (so that later Gets and Deletes of it are of an absent   *)
(* id until it is created again).                                          *)
(***************************************************************************)
C8_AsStated ==
    /\ (last.op \in {"Get", "Delete"} /\ last.before.isNil) =>
          last.code = StatusNotFound
    /\ (last.op = "Delete" /\ last.code = StatusOK) =>
          last.id \notin DOMAIN store

(***************************************************************************)
(* C8 (amended): Get and Delete of an id that is not in the collection     *)
(* never succeed: Delete returns 404; Get returns 404, unless the lookup   *)
(* failed with a transient error at each of the 5 attempts, and then 500.  *)
(* A successful Delete removes a stored id and leaves it out of the        *)
(* collection.                                                             *)
(***************************************************************************)
C8_AbsentIdNotFound ==
    /\ (last.op = "Get" /\ last.before.isNil) =>
          /\ last.resp.isNil
          /\ last.code \in {StatusNotFound, StatusInternalServerError}
          /\ (last.code = StatusInternalServerError) <=>
                (/\ last.calls = Attempts
                 /\ \A i \in 1..Attempts : last.outs[i] \in TransientErrs)
    /\ (last.op = "Delete" /\ last.before.isNil) =>
          last.code = StatusNotFound
    /\ (last.op = "Delete" /\ last.code = StatusOK) =>
          /\ ~last.before.isNil
          /\ last.id \notin DOMAIN store

C8_Witness ==
    /\ last.op = "Get"
    /\ last.before.isNil
    /\ nextId > 0
    /\ last.id = NewObjectId(0)
    /\ last.outs = <<"EOF", ErrNotFound>>
    /\ last.code = StatusNotFound

(***************************************************************************)
(* What a step leaves alone when ValidateInput admits its request body.    *)
(***************************************************************************)
SystemFieldsKept ==
    (ValidateInput(last'.body).code = StatusOK) =>
        /\ \A id \in DOMAIN store' : store'[id][ID] = id
        /\ \A id \in DOMAIN store \cap DOMAIN store' :
              /\ store'[id][ID] = store[id][ID]
              /\ store'[id][CreatedAt] = store[id][CreatedAt]
              /\ store'[id][UpdatedAt] # store[id][UpdatedAt] =>
                    /\ last'.op = "Update"
                    /\ last'.code = StatusOK
                    /\ last'.id = id
        /\ (last'.op = "Create" /\ last'.code = StatusOK) =>
              last'.id \notin DOMAIN store

(***************************************************************************)
(* C9: in every step whose request body ValidateInput admits, each record  *)
(* stored before and after the step keeps its _id and its createdAt, and   *)
(* its updatedAt changes only if the step is a successful Update of that   *)
(* record; a record is always stored under its own _id, and a successful   *)
(* Create never replaces a stored record.                                  *)
(***************************************************************************)
C9_SystemFieldsFrame == [][SystemFieldsKept]_vars

C9_Witness ==
    /\ last.op = "Update"
    /\ last.code = StatusOK
    /\ ValidateInput(last.body).code = StatusOK
    /\ store[last.id][UpdatedAt] # last.before.m[UpdatedAt]
    /\ store[last.id][CreatedAt] = last.before.m[CreatedAt]
    /\ Cardinality(DOMAIN store) = 2

(***************************************************************************)
(* C10 as stated: an Update of a stored record whose body is empty         *)
(* (absent, or a record with no fields) returns 400 and leaves the stored  *)
(* record, its updatedAt included, unchanged; stated for the calls none of *)
(* whose driver invocations fails.                                         *)
(***************************************************************************)
C10_AsStated ==
    (/\ last.op = "Update"
     /\ ~last.before.isNil
     /\ last.body.isNil \/ DOMAIN last.body.m = {}
     /\ \A i \in 1..Len(last.outs) : last.outs[i] = ErrNil) =>
        /\ last.code = StatusBadRequest
        /\ Stored(store, last.id) = last.before

(***************************************************************************)
(* C11: after a successful Create the record stored under the returned     *)
(* _id and the response carry the same _id; it is the _id of the body when *)
(* the body had one, and otherwise the identifier just generated, under    *)
(* which nothing was stored before; createdAt equals updatedAt in the      *)
(* stored record and in the response, and both are the time of the call.   *)
(***************************************************************************)
C11_CreateIdAndTimes ==
    (last.op = "Create" /\ last.code = StatusOK) =>
        /\ last.id \in DOMAIN store
        /\ store[last.id][ID] = last.id
        /\ last.resp.m[ID] = last.id
        /\ last.data.m[ID] = last.id
        /\ IF ID \in DOMAIN last.body.m
           THEN last.id = last.body.m[ID]
           ELSE /\ nextId > 0
                /\ last.id = NewObjectId(nextId - 1)
                /\ last.before.isNil
                /\ \A n \in 0..(nextId - 2) : last.id # NewObjectId(n)
        /\ store[last.id][CreatedAt] = store[last.id][UpdatedAt]
        /\ last.resp.m[CreatedAt] = last.resp.m[UpdatedAt]
        /\ store[last.id][CreatedAt] = now
        /\ last.resp.m[CreatedAt] = now

C11_Witness ==
    /\ last.op = "Create"
    /\ last.code = StatusOK
    /\ ID \notin DOMAIN last.body.m
    /\ last.id = NewObjectId(0)
    /\ store[last.id][CreatedAt] = 2
    /\ store[last.id][UpdatedAt] = 2
    /\ 1 \in DOMAIN store
    /\ store[1][ID] = 1

(***************************************************************************)
(* What C12 says of the Gets named in ops.  The record is absent when the  *)
(* lookup is answered not-found; the lookup fails for another reason when  *)
(* the last answer of the driver is a transient error.                     *)
(***************************************************************************)
GetAsClaimed(ops) ==
    last.op \in ops =>
        /\ last.code = StatusNotFound =>
              (last.before.isNil /\ last.err = ErrNotFound)
        /\ last.err = ErrNotFound => last.code = StatusNotFound
        /\ last.err \in TransientErrs =>
              last.code = StatusInternalServerError
        /\ last.code # StatusOK => last.resp.isNil
        /\ last.code = StatusOK =>
              (~last.before.isNil /\ last.resp = last.before)

(***************************************************************************)
(* C12: Get returns 404 exactly when the record is absent, 500 and never   *)
(* 404 when the lookup fails for another reason, and a nil response with   *)
(* either error; stated of the Get of both providers.                      *)
(***************************************************************************)
C12_AsStated == GetAsClaimed({"Get", "GetWithoutRetry"})

(***************************************************************************)
(* The calls of retry that C13 is about: retry itself with 1 to 5          *)
(* attempts, and the retry(5, ...) of Get.  Made(i) says that the i-th     *)
(* invocation was made and what it returned is in last.outs[i].            *)
(***************************************************************************)
RetryAttempts == IF last.op = "retry" THEN last.attempts ELSE Attempts

RetryBounded ==
    /\ last.calls \in 1..RetryAttempts
    /\ Len(last.outs) = last.calls
    /\ \A i \in 1..(last.calls - 1) : last.outs[i] # ErrNil
    /\ last.err = last.outs[last.calls]

LogOf(failed) ==
    [i \in 1..failed |-> IF i < RetryAttempts THEN <<"retrying", i>>
                                               ELSE <<"last", RetryAttempts>>]

(***************************************************************************)
(* C13 as stated: retry invokes the operation between once and attempts    *)
(* times, never after the first success, and logs one message for every    *)
(* invocation that returned an error: retrying for a failure that is not   *)
(* the last attempt, last-attempt for the failure that ends the call.      *)
(***************************************************************************)
C13_AsStated ==
    last.op \in {"retry", "Get"} =>
        /\ RetryBounded
        /\ LET failed == Cardinality({i \in 1..last.calls :
                                         last.outs[i] # ErrNil})
           IN  /\ Len(last.log) = failed
               /\ \A i \in 1..failed :
                     last.log[i] = IF i < last.calls \/ last.err = ErrNil
                                   THEN <<"retrying", i>>
                                   ELSE <<"last", RetryAttempts>>

(***************************************************************************)
(* C13 (amended): retry invokes the operation between once and attempts    *)
(* times, never after the first success or the first not-found answer,     *)
(* and logs one message for every invocation that returned an error other  *)
(* than not-found: retrying (with the number of the attempt) when attempts *)
(* remain, last-attempt at the attempts-th invocation; an invocation       *)
(* answered not-found logs nothing.                                        *)
(***************************************************************************)
C13_RetryBoundsAndLog ==
    last.op \in {"retry", "Get"} =>
        /\ RetryBounded
        /\ \A i \in 1..(last.calls - 1) : last.outs[i] \in TransientErrs
        /\ LET failed == Cardinality({i \in 1..last.calls :
                                         last.outs[i] \in TransientErrs})
           IN  last.log = LogOf(failed)

C13_Witness ==
    /\ last.op = "retry"
    /\ last.attempts = Attempts
    /\ last.calls = Attempts
    /\ \A i \in 1..Attempts : last.outs[i] \in TransientErrs
    /\ last.log = <<(<<"retrying", 1>>), (<<"retrying", 2>>),
                    (<<"retrying", 3>>), (<<"retrying", 4>>),
                    (<<"last", Attempts>>)>>

(***************************************************************************)
(* C14: when two concurrent Update calls on the same record, with disjoint *)
(* sets of fields, have both returned success, the stored record has the   *)
(* fields written by both calls.                                           *)
(***************************************************************************)
C14_AsStated ==
    (/\ \A p \in Procs : inflight[p].pc = "done" /\ inflight[p].code = StatusOK
     /\ inflight[1].id = inflight[2].id
     /\ DOMAIN inflight[1].body.m \cap DOMAIN inflight[2].body.m = {})
    => /\ inflight[1].id \in DOMAIN store
       /\ \A p \in Procs : \A k \in DOMAIN inflight[p].body.m :
             /\ k \in DOMAIN store[inflight[p].id]
             /\ store[inflight[p].id][k] = inflight[p].body.m[k]

====
